---- MODULE Spec2Model ----
(***************************************************************************)
(* The tool-calling orchestration loop of kilo (internal/tui, internal/ai, *)
(* internal/tools): the Bubble Tea model's Update handlers and the two     *)
(* commands sendMessage and sendFinalMessage, run against a nondeter-      *)
(* ministic model gateway and nondeterministic tool outcomes.              *)
(*                                                                         *)
(* Go strings are sequences of pieces [s |-> base, n |-> k]: the first k   *)
(* characters of the base text s.  Concatenation is \o, the empty string   *)
(* is <<>>, and slicing s[:k] is Take(s, k).                               *)
(***************************************************************************)
EXTENDS Naturals, Sequences, FiniteSets, TLC

(* ------------------------------ bounds -------------------------------- *)

\* departures, in one run, from the plain run: a submission after the first,
\* a tool call that is not a bash call with a valid payload and a short
\* successful output, a tool call after the first of a response, text beside
\* the tool requests of a response, an Enter on an input that is blank or
\* has blanks around it
MaxOddities == 1
\* length of a combined output that is longer than the cap
BigOutputLen == 5001

(* ------------------------- program constants -------------------------- *)

\* maxIterations := 5 in sendFinalMessage
maxIterations == 5
\* len(result) > 5000 / result[:5000]
TruncateAt == 5000

(* ------------------------------ strings ------------------------------- *)

\* len() of the literal base texts of the program
BaseLen(s) ==
  CASE s = "Error: " -> 7
    [] s = "tool not found: " -> 16
    [] s = "invalid input: " -> 15
    [] s = "command failed: " -> 16
    [] s = "\nOutput: " -> 9
    [] s = "final response error: " -> 22
    [] s = "failed to send message: " -> 24
    [] s = "empty response from Claude (no error, just empty content)" -> 57
    [] s = "reached maximum iterations (5) - Claude kept calling tools" -> 58
    [] s = "\n... [output truncated, too long]" -> 33
    [] s = "failed to get time: " -> 20
    [] s = "bash" -> 4
    [] s = "bogus_tool" -> 10
    [] s = "nvidia_smi" -> 10
    [] s = "get_time" -> 8
    [] s = "Paris" -> 5
    [] s = "hi" -> 2
    [] s = "ok" -> 2
    [] s = "invalid character 'o' in literal null (expecting 'u')" -> 53
    [] s = "unexpected end of JSON input" -> 28
    [] s = "exit status 1" -> 13
    [] s = "signal: killed" -> 14
    [] s = "connection refused" -> 18
    [] s = "context deadline exceeded" -> 25
    [] OTHER -> 1

\* a string literal
Lit(s) == <<[s |-> s, n |-> BaseLen(s)]>>

\* n repetitions of the character c
Run(c, n) == IF n = 0 THEN <<>> ELSE <<[s |-> c, n |-> n]>>

RECURSIVE StrLen(_)
\* len(s)
StrLen(str) == IF str = <<>> THEN 0 ELSE Head(str).n + StrLen(Tail(str))

RECURSIVE Take(_, _)
\* s[:k], for k <= len(s)
Take(str, k) ==
  IF k = 0 \/ str = <<>> THEN <<>>
  ELSE IF Head(str).n <= k
       THEN <<Head(str)>> \o Take(Tail(str), k - Head(str).n)
       ELSE <<[s |-> Head(str).s, n |-> k]>>

RECURSIVE TrimLeft(_)
TrimLeft(str) ==
  IF str # <<>> /\ Head(str).s = " " THEN TrimLeft(Tail(str)) ELSE str

RECURSIVE TrimRight(_)
TrimRight(str) ==
  IF str # <<>> /\ str[Len(str)].s = " "
  THEN TrimRight(SubSeq(str, 1, Len(str) - 1)) ELSE str

\* strings.TrimSpace
TrimSpace(str) == TrimRight(TrimLeft(str))

\* a slip: the error is shown without the prefix
SprintfErrorBare(err) == err

\* fmt.Sprintf("Error: %v", err)
SprintfError(err) == Lit("Error: ") \o err

\* fmt.Errorf("final response error: %w", err)
WrapFinalError(err) == Lit("final response error: ") \o err

\* a nil error; every error of the program has a non-empty text
NilErr == <<>>

(* ----------------------------- ai.Message ----------------------------- *)

\* ai.Message{Role, Content, ToolCallID, ToolCallName, ToolCallInput}
Message(role, content, id, name, input) ==
  [Role |-> role, Content |-> content, ToolCallID |-> id,
   ToolCallName |-> name, ToolCallInput |-> input]

\* ai.Message{Role: "user", Content: userInput}
UserMessage(userInput) == Message("user", userInput, "", "", "")

\* ai.Message{Role: "assistant", Content: content}
AssistantMessage(content) == Message("assistant", content, "", "", "")

\* a slip: the request turn is filed under the tool's name
ToolCallMessageByName(toolCall) ==
  Message("assistant", <<>>, toolCall.Name, toolCall.Name, toolCall.Input)

\* a slip: the request turn carries a text
ToolCallMessageWithText(toolCall) ==
  Message("assistant", Lit("Paris"), toolCall.ID, toolCall.Name,
          toolCall.Input)

\* ai.Message{Role: "assistant", ToolCallID, ToolCallName, ToolCallInput}
ToolCallMessage(toolCall) ==
  Message("assistant", <<>>, toolCall.ID, toolCall.Name, toolCall.Input)

\* a slip: the tool's name where the call ID belongs
ToolResultMessageByName(toolCall, result) ==
  Message("tool", result, toolCall.Name, "", "")

\* a slip: the call ID is left out of the result turn
ToolResultMessageWithoutID(toolCall, result) ==
  Message("tool", result, "", "", "")

\* ai.Message{Role: "tool", Content: result, ToolCallID: toolCall.ID}
ToolResultMessage(toolCall, result) ==
  Message("tool", result, toolCall.ID, "", "")

(* --------------------------- tool executor ---------------------------- *)

\* tools: make(map[string]ToolHandler)
EmptyRegistry == [n \in {} |-> "none"]

\* a slip: a name that is taken keeps its handler
RegisterToolKeepsFirst(te, name, handler) ==
  [n \in DOMAIN te \cup {name} |-> IF n \in DOMAIN te THEN te[n] ELSE handler]

\* te.tools[name] = handler
RegisterTool(te, name, handler) ==
  [n \in DOMAIN te \cup {name} |-> IF n = name THEN handler ELSE te[n]]

\* ai.NewToolExecutor: the built-in handlers are registered
NewToolExecutor ==
  RegisterTool(RegisterTool(EmptyRegistry, "bash", "ai.executeBash"),
               "get_time", "ai.executeGetTime")

\* tools.New: the registry the loop's executor holds
ToolsNew ==
  RegisterTool(RegisterTool(NewToolExecutor, "bash", "tools.ExecuteBash"),
               "nvidia_smi", "tools.ExecuteNvidiaSmi")

\* tools.Executor.GetAvailableTools: BashTool(), NvidiaSmiTool(), by name
GetAvailableTools == <<"bash", "nvidia_smi">>

\* argument payloads the gateway sends: well formed, not JSON, an object
\* without "command", an object with a key the handler does not know
ValidInput == "{\"command\":\"ls\"}"
BadInput == "not json"
NoCommandInput == "{}"
ExtraKeyInput == "{\"command\":\"ls\",\"cwd\":\"/tmp\"}"

\* the arguments string of a tool-use block that came without input
EmptyInput == ""

\* the error of json.Unmarshal for a payload it rejects
JSONError(input) ==
  IF input = EmptyInput THEN Lit("unexpected end of JSON input")
  ELSE Lit("invalid character 'o' in literal null (expecting 'u')")

\* whether json.Unmarshal([]byte(input), &params) returns no error
JSONUnmarshalOK(input) == input \in {ValidInput, NoCommandInput, ExtraKeyInput}

\* params.Command after json.Unmarshal: a key that is absent leaves the zero
\* value, a key the struct does not have is skipped
ParamsCommand(input) == IF input = NoCommandInput THEN "" ELSE "ls"

\* what running a command can do: its combined output and how it ended
SmallOutput == Lit("ok") \o Run(" ", 1)
BigOutput == Run("x", BigOutputLen)
\* an output as long as the cap
ExactOutput == Run("x", TruncateAt)
\* a long output that itself holds the text of the truncation marker
MarkedOutput ==
  Lit("ok") \o Lit("\n... [output truncated, too long]") \o BigOutput
PlainEnv == [kind |-> "ok", out |-> SmallOutput]
ToolEnvs ==
  { PlainEnv,
    [kind |-> "ok", out |-> BigOutput],
    [kind |-> "exit", out |-> SmallOutput],
    [kind |-> "exit", out |-> BigOutput],
    [kind |-> "ok", out |-> MarkedOutput],
    [kind |-> "ok", out |-> ExactOutput],
    [kind |-> "timeout", out |-> <<>>] }
\* what bash -c "" does
EmptyEnv == [kind |-> "ok", out |-> <<>>]
\* the context handed to the handler is done: the command is not started
DeadlineEnv == [kind |-> "deadline", out |-> <<>>]

\* the error cmd.CombinedOutput returns
CmdError(env) ==
  IF env.kind = "exit" THEN Lit("exit status 1")
  ELSE IF env.kind = "deadline" THEN Lit("context deadline exceeded")
  ELSE Lit("signal: killed")

\* tools.ExecuteBash, tools.ExecuteNvidiaSmi, ai.executeBash
\* command is what exec.CommandContext was given, "none" when not reached
ExecuteBash(input, env) ==
  IF ~JSONUnmarshalOK(input)
  THEN [result |-> <<>>,
        err |-> Lit("invalid input: ") \o JSONError(input),
        command |-> "none"]
  ELSE IF env.kind # "ok"
  THEN [result |-> <<>>,
        err |-> Lit("command failed: ") \o CmdError(env)
                  \o Lit("\nOutput: ") \o env.out,
        command |-> ParamsCommand(input)]
  ELSE [result |-> TrimSpace(env.out), err |-> NilErr,
        command |-> ParamsCommand(input)]

\* ai.executeGetTime
ExecuteGetTime(input, env) ==
  IF env.kind # "ok"
  THEN [result |-> <<>>, err |-> Lit("failed to get time: ") \o CmdError(env),
        command |-> "date"]
  ELSE [result |-> TrimSpace(env.out), err |-> NilErr, command |-> "date"]

\* handler(ctx, toolCall.Input), with the handler that ran beside its result
RunHandler(handler, input, env) ==
  LET r == IF handler = "ai.executeGetTime"
           THEN ExecuteGetTime(input, env)
           ELSE ExecuteBash(input, env)
  IN [result |-> r.result, err |-> r.err, handler |-> handler,
      command |-> r.command]

\* a slip: a name without a handler is given to the bash handler
ExecuteFallsBackToBash(te, toolCall, env) ==
  RunHandler(IF toolCall.Name \in DOMAIN te THEN te[toolCall.Name]
             ELSE te["bash"],
             toolCall.Input, env)

\* ToolExecutor.Execute
Execute(te, toolCall, env) ==
  IF toolCall.Name \notin DOMAIN te
  THEN [result |-> <<>>,
        err |-> Lit("tool not found: ") \o Lit(toolCall.Name),
        handler |-> "none", command |-> "none"]
  ELSE RunHandler(te[toolCall.Name], toolCall.Input, env)

\* a slip: the error of Execute is dropped
ResultTextDropsError(out) == out.result

\* if err != nil { result = fmt.Sprintf("Error: %v", err) }
ResultText(out) ==
  IF out.err # NilErr THEN SprintfError(out.err) ELSE out.result

\* "\n... [output truncated, too long]"
TruncationMarker == Lit("\n... [output truncated, too long]")

\* a slip: the marker is added to the whole result
TruncateWithoutCut(result) ==
  IF StrLen(result) > TruncateAt THEN result \o TruncationMarker ELSE result

\* a slip: nothing is cut
TruncateNever(result) == result

\* a slip: a result as long as the cap is cut too
TruncateFromCap(result) ==
  IF StrLen(result) >= TruncateAt
  THEN Take(result, TruncateAt) \o TruncationMarker
  ELSE result

\* if len(result) > 5000 { result = result[:5000] + marker }
Truncate(result) ==
  IF StrLen(result) > TruncateAt
  THEN Take(result, TruncateAt) \o TruncationMarker
  ELSE result

(* ---------------------------- model gateway --------------------------- *)

\* one entry of anthropicMessages: its role, the kind of its block, the call
\* ID of a tool block, and the place of the turn it was built from
ProviderMessage(role, block, id, at) ==
  [role |-> role, block |-> block, id |-> id, at |-> at]

\* the body of the loop over messages in SendMessageWithTools: the entries
\* built from the turn at place i
TranslateTurn(msg, i) ==
  CASE msg.Role = "user" -> <<ProviderMessage("user", "text", "", i)>>
    [] msg.Role = "assistant" ->
         IF msg.ToolCallID # "" /\ msg.ToolCallName # ""
              /\ msg.ToolCallInput # ""
         THEN <<ProviderMessage("assistant", "tool_use", msg.ToolCallID, i)>>
         ELSE IF msg.Content # <<>>
         THEN <<ProviderMessage("assistant", "text", "", i)>>
         ELSE <<>>
    [] msg.Role = "tool" ->
         <<ProviderMessage("user", "tool_result", msg.ToolCallID, i)>>
    [] OTHER -> <<>>

RECURSIVE TranslateFrom(_, _)
\* for _, msg := range messages, from place i on
TranslateFrom(msgs, i) ==
  IF i > Len(msgs) THEN <<>>
  ELSE TranslateTurn(msgs[i], i) \o TranslateFrom(msgs, i + 1)

\* anthropicMessages, as SendMessageWithTools builds it from a transcript
AnthropicMessages(msgs) == TranslateFrom(msgs, 1)

\* call IDs the provider assigns, in the order it hands them out
CallIDs ==
  <<"t1", "t2", "t3", "t4", "t5", "t6", "t7", "t8", "t9", "t10",
    "t11", "t12", "t13", "t14", "t15", "t16", "t17", "t18", "t19", "t20",
    "t21", "t22", "t23", "t24", "t25", "t26", "t27", "t28", "t29", "t30">>

\* tool names and payloads the gateway may request
RequestNames == {"bash", "nvidia_smi", "bogus_tool"}
RequestInputs ==
  {ValidInput, BadInput, NoCommandInput, ExtraKeyInput, EmptyInput}

\* a request that a registered bash handler can run
PlainCall(name, input) == name = "bash" /\ input = ValidInput

\* ai.ToolCall{ID, Name, Input}
ToolCall(id, name, input) == [ID |-> id, Name |-> name, Input |-> input]

\* the error Client.SendMessageWithTools returns when Messages.New fails
TransportError == Lit("failed to send message: ") \o Lit("connection refused")

\* the same, when the context of the call is done
DeadlineError ==
  Lit("failed to send message: ") \o Lit("context deadline exceeded")

\* ai.Response{Content, ToolCalls}, with the error returned beside it
Response(content, toolCalls, err) ==
  [Content |-> content, ToolCalls |-> toolCalls, err |-> err]

\* texts the model may answer with
Contents == {<<>>, Lit("Paris")}

\* the departures a response with these tool calls and this content adds:
\* each call that is not plain, each call after the first, text beside calls
Oddness(content, calls) ==
  Cardinality({i \in DOMAIN calls : ~PlainCall(calls[i][1], calls[i][2])})
    + (IF Len(calls) > 1 THEN Len(calls) - 1 ELSE 0)
    + (IF Len(calls) > 0 /\ content # <<>> THEN 1 ELSE 0)

\* the tool-call lists a response may carry, given how many call IDs were
\* handed out before it and how many departures are left; every call after
\* the first is a departure
ToolCallLists(used, left) ==
  { calls \in UNION { [1..k -> RequestNames \X RequestInputs] :
                        k \in 1..(left + 1) } :
      used + Len(calls) <= Len(CallIDs) }

\* the list with the provider's IDs on it
WithIDs(calls, used) ==
  [i \in DOMAIN calls |-> ToolCall(CallIDs[used + i], calls[i][1], calls[i][2])]

(* ------------------------------- state -------------------------------- *)

VARIABLES
  messages,     \* model.messages: the caller's transcript
  thinking,     \* model.thinking
  cmd,          \* where the running tea.Cmd stands
  cmdMessages,  \* m.messages of the closure the tea.Cmd runs on
  response,     \* the command's local: the last gateway response
  pending,      \* the tool calls the range loop has not reached yet
  iteration,    \* sendFinalMessage's loop counter
  execOut,      \* the command's locals result, err of the last Execute
  mailbox,      \* the tea.Msg the command returned, not yet handled
  sent,         \* the transcript given to the last gateway call
  sentTools,    \* the tool list given to the last gateway call
  gwCalls,      \* gateway calls of the current exchange
  requested,    \* the tool calls the gateway requested in this exchange
  cycles,       \* tool-execution phases of the current exchange
  outcome,      \* how the last handled exchange ended
  reported,     \* the error the last responseMsg carried
  running,      \* commands started and not yet handled
  exchanges,    \* submissions accepted in this run
  usedIDs,      \* call IDs handed out in this run
  oddities,     \* departures from the plain tool round in this run
  elapsed,      \* "late" once 60 s have passed since the submission
  ctxDone,      \* the context of sendFinalMessage is past its deadline
  registry,     \* ToolExecutor.tools: the handler of each registered name
  registered,   \* the last RegisterTool call: name, handler, handler replaced
  entered       \* m.input.Value() at the last Enter taken while not thinking

vars ==
  <<messages, thinking, cmd, cmdMessages, response, pending, iteration,
    execOut, mailbox, sent, sentTools, gwCalls, requested, cycles, outcome, reported, running,
    exchanges, usedIDs, oddities, elapsed, ctxDone, registry, registered,
    entered>>

\* the command's own state
cmdVars == <<cmd, cmdMessages, response, pending, iteration, execOut, mailbox>>
\* the clock of the exchange and of the command's context, and the executor
clockVars == <<elapsed, ctxDone, registry, registered, entered>>
\* what the run has observed of the gateway and the tools
obsVars == <<sent, sentTools, gwCalls, requested, cycles, usedIDs, oddities>>

NoResponse == Response(<<>>, <<>>, NilErr)
NoExecOut ==
  [result |-> <<>>, err |-> NilErr, handler |-> "none", command |-> "none"]
NoMsg == [type |-> "none", content |-> <<>>, messages |-> <<>>, err |-> NilErr]

\* responseMsg{content, messages, err}
ResponseMsg(content, msgs, err) ==
  [type |-> "responseMsg", content |-> content, messages |-> msgs, err |-> err]

\* toolExecutedMsg{messages}
ToolExecutedMsg(msgs) ==
  [type |-> "toolExecutedMsg", content |-> <<>>, messages |-> msgs,
   err |-> NilErr]

\* fmt.Errorf("empty response from Claude (no error, just empty content)")
EmptyResponseError ==
  Lit("empty response from Claude (no error, just empty content)")

\* fmt.Errorf("reached maximum iterations (%d) - Claude kept calling tools", 5)
MaxIterationsError ==
  Lit("reached maximum iterations (5) - Claude kept calling tools")

\* Enter has not been pressed yet
NoInput == <<[s |-> "none", n |-> 0]>>

\* tui.New: no messages, not thinking, no command
NewModel ==
  /\ messages = <<>>
  /\ thinking = FALSE
  /\ cmd = "none"
  /\ cmdMessages = <<>>
  /\ response = NoResponse
  /\ pending = <<>>
  /\ iteration = 0
  /\ execOut = NoExecOut
  /\ mailbox = NoMsg
  /\ sent = <<>>
  /\ sentTools = <<>>
  /\ gwCalls = 0
  /\ requested = <<>>
  /\ cycles = 0
  /\ outcome = "none"
  /\ reported = NilErr
  /\ running = 0
  /\ exchanges = 0
  /\ usedIDs = 0
  /\ oddities = 0
  /\ elapsed = "early"
  /\ ctxDone = FALSE
  /\ entered = NoInput

\* one call of RegisterTool: its arguments and the handler the name had
Registration(te, name, handler) ==
  [name |-> name, handler |-> handler,
   previous |-> IF name \in DOMAIN te THEN te[name] ELSE "none"]

\* tui.New, with executor: tools.New()
Init ==
  /\ NewModel
  /\ registry = ToolsNew
  /\ registered =
       Registration(RegisterTool(NewToolExecutor, "bash", "tools.ExecuteBash"),
                    "nvidia_smi", "tools.ExecuteNvidiaSmi")

\* what the user may have typed when Enter is pressed
Inputs == {<<>>, Run(" ", 2), Lit("hi"), Run(" ", 1) \o Lit("hi") \o Run(" ", 1)}

(* ------------------------- Update: tea.KeyEnter ----------------------- *)

\* the departure an input adds: the plain input is "hi"
InputOddness(in) == IF in = Lit("hi") THEN 0 ELSE 1

\* tea.KeyEnter with a blank input while not thinking: return m, nil
Ignore(in) ==
  /\ oddities < MaxOddities
  /\ oddities' = oddities + 1
  /\ entered' = in
  /\ UNCHANGED <<messages, thinking, outcome, reported, running, exchanges,
                 sent, sentTools, gwCalls, requested, cycles, usedIDs,
                 elapsed, ctxDone, registry, registered>>
  /\ UNCHANGED cmdVars

\* tea.KeyEnter with the input in while not thinking, userInput not empty:
\* the user turn is added and sendMessage starts
Submit(in, userInput) ==
  /\ oddities + InputOddness(in) + (IF exchanges = 0 THEN 0 ELSE 1)
       <= MaxOddities
  /\ oddities' =
       oddities + InputOddness(in) + (IF exchanges = 0 THEN 0 ELSE 1)
  /\ entered' = in
  /\ messages' = Append(messages, UserMessage(userInput))
  /\ thinking' = TRUE
  \* return m, m.sendMessage(): the command runs on a copy of m
  /\ cmd' = "sendMessage"
  /\ cmdMessages' = messages'
  /\ response' = NoResponse
  /\ pending' = <<>>
  /\ iteration' = 0
  /\ execOut' = NoExecOut
  /\ running' = running + 1
  /\ gwCalls' = 0
  /\ requested' = <<>>
  /\ cycles' = 0
  /\ sent' = <<>>
  /\ sentTools' = <<>>
  /\ outcome' = "none"
  /\ reported' = NilErr
  /\ exchanges' = exchanges + 1
  /\ elapsed' = "early"
  /\ ctxDone' = FALSE
  /\ UNCHANGED <<mailbox, usedIDs, registry, registered>>

\* a slip: Enter is not ignored while an exchange is in flight
KeyEnterWhileThinking(in) ==
  IF TrimSpace(in) = <<>> THEN Ignore(in) ELSE Submit(in, TrimSpace(in))

\* a slip: the input is tested and sent as it was typed
KeyEnterUntrimmed(in) ==
  IF thinking
  THEN UNCHANGED vars
  ELSE IF in = <<>>
  THEN Ignore(in)
  ELSE Submit(in, in)

\* case tea.KeyEnter
KeyEnter(in) ==
  IF thinking
  THEN UNCHANGED vars
  ELSE IF TrimSpace(in) = <<>>
  THEN Ignore(in)
  ELSE Submit(in, TrimSpace(in))

(* ------------------- the gateway, as the commands see it -------------- *)

\* what one call of Client.SendMessageWithTools may return
GatewayResponses ==
  IF ctxDone
  THEN {Response(<<>>, <<>>, DeadlineError)}
  ELSE {Response(<<>>, <<>>, TransportError)}
         \cup {Response(c, <<>>, NilErr) : c \in Contents}
         \cup {Response(rc[1], WithIDs(rc[2], usedIDs), NilErr) :
                 rc \in {x \in Contents
                                 \X ToolCallLists(usedIDs,
                                                  MaxOddities - oddities) :
                           oddities + Oddness(x[1], x[2]) <= MaxOddities}}

\* a slip: the gateway is given the transcript the caller holds
SendMessageWithToolsStale(resp) ==
  /\ resp \in GatewayResponses
  /\ response' = resp
  /\ sent' = messages
  /\ sentTools' = GetAvailableTools
  /\ gwCalls' = gwCalls + 1
  /\ requested' = requested \o resp.ToolCalls
  /\ usedIDs' = usedIDs + Len(resp.ToolCalls)
  /\ oddities' = oddities
       + Oddness(resp.Content,
                 [i \in DOMAIN resp.ToolCalls |->
                    <<resp.ToolCalls[i].Name, resp.ToolCalls[i].Input>>])

\* response, err := m.client.SendMessageWithTools(ctx, m.messages, tools)
SendMessageWithTools(resp) ==
  /\ resp \in GatewayResponses
  /\ response' = resp
  /\ sent' = cmdMessages
  /\ sentTools' = GetAvailableTools
  /\ gwCalls' = gwCalls + 1
  /\ requested' = requested \o resp.ToolCalls
  /\ usedIDs' = usedIDs + Len(resp.ToolCalls)
  /\ oddities' = oddities
       + Oddness(resp.Content,
                 [i \in DOMAIN resp.ToolCalls |->
                    <<resp.ToolCalls[i].Name, resp.ToolCalls[i].Input>>])

\* the outcomes the tool of a call may have: a call that never reaches a
\* command has the one outcome its handler computes
EnvsFor(toolCall) ==
  IF ctxDone
  THEN {DeadlineEnv}
  ELSE IF PlainCall(toolCall.Name, toolCall.Input)
  THEN {env \in ToolEnvs : env = PlainEnv \/ oddities < MaxOddities}
  ELSE IF JSONUnmarshalOK(toolCall.Input) /\ ParamsCommand(toolCall.Input) = ""
  THEN {EmptyEnv}
  ELSE {PlainEnv}

\* the departure an outcome adds
EnvOddness(env) == IF env \in {PlainEnv, EmptyEnv, DeadlineEnv} THEN 0 ELSE 1

\* the command returns msg
Return(msg) ==
  /\ mailbox' = msg
  /\ cmd' = "returned"

(* ----------------------------- sendMessage ---------------------------- *)

\* sendMessage: the gateway call and the branch on its response
SendGateway ==
  /\ cmd = "sendMessage"
  /\ \E resp \in GatewayResponses :
       /\ SendMessageWithTools(resp)
       /\ IF resp.err # NilErr
          THEN /\ Return(ResponseMsg(<<>>, <<>>, resp.err))
               /\ UNCHANGED pending
          ELSE IF Len(resp.ToolCalls) = 0
          THEN /\ Return(ResponseMsg(resp.Content, cmdMessages, NilErr))
               /\ UNCHANGED pending
          ELSE /\ pending' = resp.ToolCalls
               /\ cmd' = "smAppend"
               /\ UNCHANGED mailbox
  /\ UNCHANGED <<messages, thinking, cmdMessages, iteration, execOut, cycles,
                 outcome, reported, running, exchanges>>
  /\ UNCHANGED clockVars

\* sendMessage: the tool call is added to the history
SendAppend ==
  /\ cmd = "smAppend"
  /\ cmdMessages' = Append(cmdMessages, ToolCallMessage(Head(pending)))
  /\ cmd' = "smExecute"
  /\ UNCHANGED <<messages, thinking, response, pending, iteration, execOut,
                 mailbox, outcome, reported, running, exchanges>>
  /\ UNCHANGED clockVars
  /\ UNCHANGED obsVars

\* sendMessage: the tool runs, its result is capped and added to the
\* history; after the last call the command returns toolExecutedMsg
SendExecute ==
  /\ cmd = "smExecute"
  /\ \E env \in EnvsFor(Head(pending)) :
       LET toolCall == Head(pending)
           out == Execute(registry, toolCall, env)
           result == Truncate(ResultText(out))
       IN /\ execOut' = out
          /\ cmdMessages' =
               Append(cmdMessages, ToolResultMessage(toolCall, result))
          /\ oddities' = oddities + EnvOddness(env)
  /\ pending' = Tail(pending)
  /\ cycles' = IF Len(pending) = Len(response.ToolCalls)
               THEN cycles + 1 ELSE cycles
  /\ IF Tail(pending) = <<>>
     THEN Return(ToolExecutedMsg(cmdMessages'))
     ELSE cmd' = "smAppend" /\ UNCHANGED mailbox
  /\ UNCHANGED <<messages, thinking, response, iteration, sent, sentTools, gwCalls,
                 requested, usedIDs, outcome, reported, running, exchanges>>
  /\ UNCHANGED clockVars

(* -------------------------- sendFinalMessage -------------------------- *)

\* sendFinalMessage: one pass of the loop up to the tool calls
FinalGateway ==
  /\ cmd = "sendFinalMessage"
  /\ iteration < maxIterations
  /\ \E resp \in GatewayResponses :
       /\ SendMessageWithTools(resp)
       /\ IF resp.err # NilErr
          THEN /\ Return(ResponseMsg(<<>>, cmdMessages,
                                     WrapFinalError(resp.err)))
               /\ UNCHANGED pending
          ELSE IF Len(resp.ToolCalls) > 0
          THEN /\ pending' = resp.ToolCalls
               /\ cmd' = "sfAppend"
               /\ UNCHANGED mailbox
          ELSE IF resp.Content # <<>>
          THEN /\ Return(ResponseMsg(resp.Content, cmdMessages, NilErr))
               /\ UNCHANGED pending
          ELSE /\ Return(ResponseMsg(<<>>, cmdMessages, EmptyResponseError))
               /\ UNCHANGED pending
  /\ UNCHANGED <<messages, thinking, cmdMessages, iteration, execOut, cycles,
                 outcome, reported, running, exchanges>>
  /\ UNCHANGED clockVars

\* sendFinalMessage: the tool call is added to the history
FinalAppend ==
  /\ cmd = "sfAppend"
  /\ cmdMessages' = Append(cmdMessages, ToolCallMessage(Head(pending)))
  /\ cmd' = "sfExecute"
  /\ UNCHANGED <<messages, thinking, response, pending, iteration, execOut,
                 mailbox, outcome, reported, running, exchanges>>
  /\ UNCHANGED clockVars
  /\ UNCHANGED obsVars

\* sendFinalMessage: the tool runs, its result is capped and added to the
\* history; after the last call the loop continues with the next iteration
FinalExecute ==
  /\ cmd = "sfExecute"
  /\ \E env \in EnvsFor(Head(pending)) :
       LET toolCall == Head(pending)
           out == Execute(registry, toolCall, env)
           result == Truncate(ResultText(out))
       IN /\ execOut' = out
          /\ cmdMessages' =
               Append(cmdMessages, ToolResultMessage(toolCall, result))
          /\ oddities' = oddities + EnvOddness(env)
  /\ pending' = Tail(pending)
  /\ cycles' = IF Len(pending) = Len(response.ToolCalls)
               THEN cycles + 1 ELSE cycles
  /\ IF Tail(pending) = <<>>
     THEN cmd' = "sendFinalMessage" /\ iteration' = iteration + 1
     ELSE cmd' = "sfAppend" /\ UNCHANGED iteration
  /\ UNCHANGED <<messages, thinking, response, mailbox, sent, sentTools, gwCalls,
                 requested, usedIDs, outcome, reported, running, exchanges>>
  /\ UNCHANGED clockVars

\* sendFinalMessage: the loop condition fails
FinalMaxIterations ==
  /\ cmd = "sendFinalMessage"
  /\ ~(iteration < maxIterations)
  /\ Return(ResponseMsg(<<>>, cmdMessages, MaxIterationsError))
  /\ UNCHANGED <<messages, thinking, cmdMessages, response, pending,
                 iteration, execOut, outcome, reported, running, exchanges>>
  /\ UNCHANGED clockVars
  /\ UNCHANGED obsVars

(* ----------------- Update: responseMsg, toolExecutedMsg --------------- *)

\* a slip: the transcript of the message is not taken over
ResponseMessagesKeepsOld(msg, old) ==
  IF msg.err # NilErr
  THEN Append(old, AssistantMessage(SprintfError(msg.err)))
  ELSE Append(old, AssistantMessage(msg.content))

\* a slip: the transcript of the message is taken over on failure too
ResponseMessagesTakesOverOnError(msg, old) ==
  IF msg.err # NilErr
  THEN Append(msg.messages, AssistantMessage(SprintfError(msg.err)))
  ELSE Append(IF Len(msg.messages) > 0 THEN msg.messages ELSE old,
              AssistantMessage(msg.content))

\* case responseMsg: m.messages after the handler, from m.messages before
ResponseMessages(msg, old) ==
  IF msg.err # NilErr
  THEN Append(old, AssistantMessage(SprintfError(msg.err)))
  ELSE Append(IF Len(msg.messages) > 0 THEN msg.messages ELSE old,
              AssistantMessage(msg.content))

\* a slip: a failed exchange starts sendMessage again
ResponseCmdRetries(msg) == IF msg.err # NilErr THEN "sendMessage" ELSE "none"

\* return m, nil: the handler starts no command
ResponseCmd(msg) == "none"

\* a slip: the flag is cleared on success only
ResponseThinkingOnError(msg) == msg.err # NilErr

\* m.thinking = false
ResponseThinking(msg) == FALSE

\* case responseMsg
UpdateResponseMsg ==
  /\ mailbox.type = "responseMsg"
  /\ thinking' = ResponseThinking(mailbox)
  /\ messages' = ResponseMessages(mailbox, messages)
  /\ outcome' = IF mailbox.err # NilErr THEN "Failed" ELSE "Done"
  /\ reported' = mailbox.err
  /\ mailbox' = NoMsg
  /\ cmd' = ResponseCmd(mailbox)
  /\ running' = running - 1
  /\ UNCHANGED <<cmdMessages, response, pending, iteration, execOut,
                 exchanges>>
  /\ UNCHANGED clockVars
  /\ UNCHANGED obsVars

\* a slip: the transcript of the message is not taken over
ToolExecutedMessagesKeepsOld(msg, old) == old

\* case toolExecutedMsg: m.messages = msg.messages
ToolExecutedMessages(msg, old) == msg.messages

\* case toolExecutedMsg
UpdateToolExecutedMsg ==
  /\ mailbox.type = "toolExecutedMsg"
  /\ messages' = ToolExecutedMessages(mailbox, messages)
  \* return m, m.sendFinalMessage(): the command runs on a copy of m
  /\ cmd' = "sendFinalMessage"
  /\ cmdMessages' = messages'
  /\ iteration' = 0
  /\ mailbox' = NoMsg
  \* ctx, cancel := context.WithTimeout(context.Background(), 60*time.Second)
  /\ ctxDone' = FALSE
  /\ UNCHANGED <<thinking, response, pending, execOut, outcome, reported,
                 running, exchanges, elapsed, registry, registered, entered>>
  /\ UNCHANGED obsVars

(* --------------------------- specification ---------------------------- *)

Next ==
  \/ \E in \in Inputs : KeyEnter(in)
  \/ SendGateway
  \/ SendAppend
  \/ SendExecute
  \/ FinalGateway
  \/ FinalAppend
  \/ FinalExecute
  \/ FinalMaxIterations
  \/ UpdateResponseMsg
  \/ UpdateToolExecutedMsg

Spec == Init /\ [][Next]_vars

\* a step of the running command, or the handling of the message it
\* returned
Progress ==
  \/ SendGateway
  \/ SendAppend
  \/ SendExecute
  \/ FinalGateway
  \/ FinalAppend
  \/ FinalExecute
  \/ FinalMaxIterations
  \/ UpdateResponseMsg
  \/ UpdateToolExecutedMsg

\* the program when every gateway call and every tool invocation returns
\* and Bubble Tea hands every returned message to Update
SpecLive == Spec /\ WF_vars(Progress)

(* ------------------------ the exchange's clock ------------------------ *)

\* 60 s have passed since the submission and the exchange is still running
DeadlinePasses ==
  /\ thinking
  /\ cmd # "returned"
  /\ elapsed = "early"
  /\ oddities < MaxOddities
  /\ elapsed' = "late"
  /\ oddities' = oddities + 1
  /\ UNCHANGED <<messages, thinking, outcome, reported, running, exchanges,
                 sent, sentTools, gwCalls, requested, cycles, usedIDs, ctxDone,
                 registry, registered, entered>>
  /\ UNCHANGED cmdVars

\* the deadline of the context made at the start of sendFinalMessage passes;
\* that start is later than the submission
CtxExpires ==
  /\ cmd \in {"sendFinalMessage", "sfAppend", "sfExecute"}
  /\ elapsed = "late"
  /\ ~ctxDone
  /\ ctxDone' = TRUE
  /\ UNCHANGED <<messages, thinking, outcome, reported, running, exchanges,
                 elapsed, registry, registered, entered>>
  /\ UNCHANGED cmdVars
  /\ UNCHANGED obsVars

(* ---------------------- the executor's registry ----------------------- *)

\* names and handlers a caller of RegisterTool may pass
ToolNames == {"bash", "get_time", "nvidia_smi", "my_tool"}
Handlers ==
  {"ai.executeBash", "ai.executeGetTime", "tools.ExecuteBash",
   "tools.ExecuteNvidiaSmi"}

\* te := &ToolExecutor{tools: make(map[string]ToolHandler)}
InitRegistry ==
  /\ NewModel
  /\ registry = EmptyRegistry
  /\ registered = [name |-> "none", handler |-> "none", previous |-> "none"]

\* te.RegisterTool(name, handler)
Register(name, handler) ==
  /\ registry' = RegisterTool(registry, name, handler)
  /\ registered' = Registration(registry, name, handler)
  /\ UNCHANGED <<messages, thinking, outcome, reported, running, exchanges,
                 elapsed, ctxDone, entered>>
  /\ UNCHANGED cmdVars
  /\ UNCHANGED obsVars

NextRegistry == \E name \in ToolNames, handler \in Handlers : Register(name, handler)

\* an executor under construction
SpecRegistry == InitRegistry /\ [][NextRegistry]_vars

NextDeadline ==
  \/ Next
  \/ DeadlinePasses
  \/ CtxExpires

\* the program with the passing of time made visible
SpecDeadline == Init /\ [][NextDeadline]_vars

(* ------------------------ reading a transcript ------------------------ *)

\* an assistant turn that carries a tool request
IsToolRequest(m) == m.Role = "assistant" /\ m.ToolCallID # ""
\* a tool-result turn
IsToolResult(m) == m.Role = "tool"
\* an assistant turn that carries text only
IsAssistantText(m) == m.Role = "assistant" /\ m.ToolCallID = ""

\* s is an initial part of t
IsPrefix(s, t) == Len(s) <= Len(t) /\ SubSeq(t, 1, Len(s)) = s

\* the transcripts that exist in a state: the caller's, the running
\* command's, the one in the returned message, the one the gateway last saw
Transcripts == {messages, cmdMessages, mailbox.messages, sent}

\* the place of the user turn that opened the current exchange
LastUser ==
  CHOOSE u \in DOMAIN messages :
    /\ messages[u].Role = "user"
    /\ \A j \in DOMAIN messages : j > u => messages[j].Role # "user"

\* the last gateway response carried no error and no tool request
TextOnlyResponse == response.err = NilErr /\ response.ToolCalls = <<>>

(* --------------------------------- C1 --------------------------------- *)

\* C1: in one exchange tools are executed in at most maxIterations (5)
\* tool-execution phases, counted from the gateway call of sendMessage, and
\* when the 6th gateway response of the exchange carries tool requests no
\* turn is appended for it and the exchange ends Failed with the
\* maximum-iterations error.  The code runs a 6th phase: refuted.
C1_AtMostMaxIterationsCycles ==
  /\ cycles <= maxIterations
  /\ (gwCalls = maxIterations + 1 /\ response.err = NilErr
        /\ response.ToolCalls # <<>>)
       => /\ cmdMessages = sent
          /\ outcome # "none" =>
               outcome = "Failed" /\ reported = MaxIterationsError

(* --------------------------------- C2 --------------------------------- *)

\* C2: in every transcript of every reachable state, each tool-result turn
\* has the call ID of exactly one tool-request turn, and that turn precedes
\* it (the gateway hands out each call ID once).
C2_ResultsAnswerOneEarlierRequest ==
  \A t \in Transcripts : \A i \in DOMAIN t :
    IsToolResult(t[i]) =>
      LET reqs == {j \in DOMAIN t : /\ IsToolRequest(t[j])
                                    /\ t[j].ToolCallID = t[i].ToolCallID}
      IN Cardinality(reqs) = 1 /\ \A j \in reqs : j < i

\* C2 witness: an exchange has ended Failed and the caller's transcript
\* holds a tool result
C2_Witness ==
  /\ outcome = "Failed"
  /\ \E i \in DOMAIN messages : IsToolResult(messages[i])

(* --------------------------------- C3 --------------------------------- *)

\* a step in which a command invokes a tool
ExecuteStep == cmd \in {"smExecute", "sfExecute"} /\ cmd' # cmd

C4_EmptyResponseFails ==
  (outcome # "none" /\ TextOnlyResponse /\ response.Content = <<>>)
    => /\ outcome = "Failed"
       /\ reported = EmptyResponseError
       /\ \A i \in DOMAIN messages :
            ~(IsAssistantText(messages[i]) /\ messages[i].Content = <<>>)

(* --------------------------------- C5 --------------------------------- *)

\* C5: when an exchange has ended Failed, the caller's transcript holds
\* every turn the commands of the exchange had appended before the
\* failure, in the order they were appended.  The turns appended by
\* sendFinalMessage are dropped: refuted.
C5_FailedKeepsAppendedTurns ==
  outcome = "Failed" => IsPrefix(cmdMessages, messages)

(* --------------------------------- C6 --------------------------------- *)

\* C6: when a gateway call has returned a transport error, the exchange
\* ends Failed, the error reported is that error unchanged, and the
\* caller's transcript, the error turn of the handler aside, is the one
\* that was given to the gateway.  After the first call the error is
\* wrapped and the turns of sendFinalMessage are dropped: refuted.
C6_TransportErrorVerbatim ==
  (outcome # "none" /\ response.err # NilErr)
    => /\ outcome = "Failed"
       /\ reported = response.err
       /\ SubSeq(messages, 1, Len(messages) - 1) = sent

(* --------------------------------- C7 --------------------------------- *)

\* C7: after a gateway response with no tool request and non-empty content
\* the exchange ends Done and the caller's transcript is the transcript the
\* gateway was given plus one assistant text turn with that content; after
\* the first response of an exchange that turn directly follows the user
\* turn.
C7_TextResponseEndsDone ==
  (outcome # "none" /\ TextOnlyResponse /\ response.Content # <<>>)
    => LET n == Len(messages) IN
       /\ outcome = "Done"
       /\ SubSeq(messages, 1, n - 1) = sent
       /\ messages[n].Role = "assistant"
       /\ messages[n].Content = response.Content
       /\ messages[n].ToolCallID = ""
       /\ gwCalls = 1 => LastUser = n - 1

\* C7 witness: a text answer to a later gateway call ended the exchange
C7_Witness ==
  /\ outcome = "Done"
  /\ gwCalls > 1
  /\ response.Content = Lit("Paris")

(* --------------------------------- C8 --------------------------------- *)

\* C8: when the gateway answered the first call with one tool request t
\* and the second with text, the exchange ends Done and the turns after
\* the user turn are the request turn of t, the result turn of t and the
\* assistant text turn, and nothing else.
C8_ToolThenText ==
  (outcome # "none" /\ gwCalls = 2 /\ Len(requested) = 1
     /\ TextOnlyResponse /\ response.Content # <<>>)
    => LET u == LastUser
           t == requested[1].ID
       IN /\ outcome = "Done"
          /\ Len(messages) = u + 3
          /\ IsToolRequest(messages[u + 1])
          /\ messages[u + 1].ToolCallID = t
          /\ messages[u + 1].ToolCallName = requested[1].Name
          /\ IsToolResult(messages[u + 2])
          /\ messages[u + 2].ToolCallID = t
          /\ IsAssistantText(messages[u + 3])
          /\ messages[u + 3].Content = response.Content

\* C8 witness: one tool request, then text, handled
C8_Witness ==
  /\ outcome = "Done"
  /\ gwCalls = 2
  /\ Len(requested) = 1
  /\ response.Content = Lit("Paris")

(* --------------------------------- C9 --------------------------------- *)

\* C9: at most one command is in flight, the thinking flag is set exactly
\* while one is, and no step taken while it is set accepts a submission:
\* none starts a further command or appends a user turn.
C9_OneExchangeInFlight ==
  /\ [](running <= 1 /\ (thinking <=> running = 1))
  /\ [][thinking =>
          /\ running' <= 1
          /\ exchanges' = exchanges
          /\ ~(/\ Len(messages') > Len(messages)
               /\ messages'[Len(messages')].Role = "user")]_vars

\* C9 witness: the exchange is still in flight after toolExecutedMsg, with
\* the second command running
C9_Witness ==
  /\ thinking
  /\ running = 1
  /\ cmd = "sfExecute"

(* --------------------------------- C10 -------------------------------- *)

\* C10: when an exchange has ended, every tool-result turn its commands
\* appended was part of the transcript given to a later gateway call.
\* The results of the last pass of sendFinalMessage never are: refuted.
C10_EveryResultIsSentBack ==
  outcome # "none" =>
    \A i \in DOMAIN cmdMessages :
      IsToolResult(cmdMessages[i]) =>
        i <= Len(sent) /\ sent[i] = cmdMessages[i]

(* --------------------------------- C11 -------------------------------- *)

RECURSIVE MarkerCount(_)
\* how often the whole text of the truncation marker stands in a string
MarkerCount(str) ==
  IF str = <<>> THEN 0
  ELSE (IF <<Head(str)>> = TruncationMarker THEN 1 ELSE 0)
         + MarkerCount(Tail(str))

\* the result turn of the last tool invocation of the running command
LastResult ==
  LET is == {i \in DOMAIN cmdMessages : IsToolResult(cmdMessages[i])}
  IN cmdMessages[CHOOSE i \in is : \A j \in is : j <= i]

\* the last tool invocation of this exchange gave a text longer than the cap
LongResult ==
  /\ gwCalls > 0
  /\ StrLen(ResultText(execOut)) > TruncateAt

\* C11 as stated: when a tool's output is longer than the cap, the stored
\* result holds the truncation marker exactly once, whatever the output
\* itself holds, and is no longer than the cap plus the marker.  Refuted by
\* an output that holds the marker's text within its first 5000 characters.
C11_MarkerExactlyOnce ==
  LongResult =>
    /\ MarkerCount(LastResult.Content) = 1
    /\ StrLen(LastResult.Content) <= TruncateAt + StrLen(TruncationMarker)

\* C11, amended: when a tool's output is longer than the cap, the stored
\* result is the first 5000 characters of the output followed by the
\* truncation marker, added once: its length is the cap plus the marker,
\* and it holds the marker once more than those 5000 characters do.
C11_MarkerAppendedOnce ==
  LongResult =>
    LET text == ResultText(execOut)
        content == LastResult.Content
    IN /\ content = Take(text, TruncateAt) \o TruncationMarker
       /\ StrLen(content) = TruncateAt + StrLen(TruncationMarker)
       /\ MarkerCount(content) = MarkerCount(Take(text, TruncateAt)) + 1

\* C11 witness: an output that holds the marker's text was cut and stored,
\* and the caller's transcript shows the marker twice
C11_Witness ==
  /\ LongResult
  /\ \E i \in DOMAIN messages :
       /\ IsToolResult(messages[i])
       /\ MarkerCount(messages[i].Content) = 2
       /\ StrLen(messages[i].Content) = TruncateAt + StrLen(TruncationMarker)

(* --------------------------------- C12 -------------------------------- *)

\* the command stands in the range loop over response.ToolCalls
InToolLoop == cmd \in {"smAppend", "smExecute", "sfAppend", "sfExecute"}

\* the command is about to invoke the tool of Head(pending)
AtInvocation == cmd \in {"smExecute", "sfExecute"}

\* tool calls of the response the loop is through with
Handled == Len(response.ToolCalls) - Len(pending)

\* the k-th turn the command added since its last gateway call
Since(k) == cmdMessages[Len(sent) + k]

\* the turn is the request turn of the tool call
IsRequestOf(m, toolCall) ==
  /\ m.Role = "assistant"
  /\ m.ToolCallID = toolCall.ID
  /\ m.ToolCallName = toolCall.Name
  /\ m.ToolCallInput = toolCall.Input

\* C12 as stated: when a response carries two or more tool requests, all
\* its request turns, in provider order, are in the transcript before the
\* first of its tools is invoked and before any of its result turns.
\* Refuted: the request turn of call i is added right before tool i runs.
C12_AllRequestsBeforeFirstTool ==
  AtInvocation =>
    /\ Len(cmdMessages) >= Len(sent) + Len(response.ToolCalls)
    /\ \A i \in DOMAIN response.ToolCalls :
         IsRequestOf(Since(i), response.ToolCalls[i])

\* C12, amended: one request turn is added per tool request, in provider
\* order, each right before its own tool is invoked and directly followed
\* by that tool's result turn: when tool i is about to be invoked the turns
\* added since the gateway call are request 1, result 1, ..., request i.
C12_RequestsInterleaved ==
  InToolLoop =>
    /\ Len(cmdMessages) =
         Len(sent) + 2 * Handled + (IF AtInvocation THEN 1 ELSE 0)
    /\ \A i \in 1..Handled :
         /\ IsRequestOf(Since(2 * i - 1), response.ToolCalls[i])
         /\ IsToolResult(Since(2 * i))
         /\ Since(2 * i).ToolCallID = response.ToolCalls[i].ID
    /\ AtInvocation =>
         IsRequestOf(Since(2 * Handled + 1), Head(pending))

\* C12 witness: of a response with two tool requests the first tool has
\* run and the second is about to
C12_Witness ==
  /\ AtInvocation
  /\ Len(response.ToolCalls) >= 2
  /\ Handled = 1
  /\ Len(cmdMessages) = Len(sent) + 3

(* --------------------------------- C13 -------------------------------- *)

\* the result turns the command added since its last gateway call
ResultsSince ==
  SelectSeq(SubSeq(cmdMessages, Len(sent) + 1, Len(cmdMessages)),
            IsToolResult)

\* C13: within one tool-execution phase the tools are invoked one at a time
\* in request order: tool i of the response is invoked by the one running
\* command only when the result turns of calls 1..i-1, and no others, have
\* been added in that order, and its own result turn is added before the
\* next invocation; never are two commands, hence two invocations, running.
C13_ToolsRunOneAtATime ==
  /\ [](running <= 1)
  /\ [][ExecuteStep =>
          LET i == Handled + 1
              toolCall == response.ToolCalls[i]
              last == cmdMessages'[Len(cmdMessages')]
          IN /\ running = 1
             /\ Len(ResultsSince) = i - 1
             /\ \A j \in 1..(i - 1) :
                  ResultsSince[j].ToolCallID = response.ToolCalls[j].ID
             /\ \E env \in ToolEnvs \cup {EmptyEnv, DeadlineEnv} :
                  execOut' = Execute(registry, toolCall, env)
             /\ IsToolResult(last)
             /\ last.ToolCallID = toolCall.ID
             /\ Len(response.ToolCalls) - Len(pending') = i
             /\ cmd' \notin {"smExecute", "sfExecute"}
       ]_vars

\* C13 witness: both tools of a response with two requests have run, and
\* their results stand in request order
C13_Witness ==
  /\ running = 1
  /\ Len(response.ToolCalls) = 2
  /\ Handled = 2
  /\ Len(ResultsSince) = 2
  /\ ResultsSince[1].ToolCallID = response.ToolCalls[1].ID
  /\ ResultsSince[2].ToolCallID = response.ToolCalls[2].ID

(* --------------------------------- C14 -------------------------------- *)

\* a step in which a command calls the gateway
GatewayStep == gwCalls' = gwCalls + 1

\* C14 as stated: one deadline (60 s) covers the whole exchange from the
\* first gateway call on: once it has passed no gateway call succeeds, no
\* tool invocation that reaches a command succeeds, and the exchange ends
\* Failed.  Refuted: sendMessage runs on context.Background(), and the 60 s
\* of sendFinalMessage start anew when that command starts.
C14_OneDeadlineForTheExchange ==
  [][elapsed = "late" =>
       /\ GatewayStep => response'.err # NilErr
       /\ (ExecuteStep /\ Head(pending).Name \in DOMAIN registry
             /\ JSONUnmarshalOK(Head(pending).Input))
            => execOut'.err # NilErr
       /\ (outcome = "none" /\ outcome' # "none") => outcome' = "Failed"
    ]_vars

(* --------------------------------- C15 -------------------------------- *)

\* the exchange has ended and its last gateway response asked for tools
EndedOnToolRequest ==
  outcome # "none" /\ response.err = NilErr /\ response.ToolCalls # <<>>

\* the exchange has ended on a response with neither tool requests nor text
EndedOnEmptyResponse ==
  outcome # "none" /\ TextOnlyResponse /\ response.Content = <<>>

\* the exchange has ended on a failed gateway call
EndedOnTransportError == outcome # "none" /\ response.err # NilErr

\* C15: the error an ended exchange reports tells its cause: exhaustion
\* gives the maximum-iterations error, and only with the iteration budget
\* used up; an empty response gives the empty-response error; a failed
\* gateway call gives the gateway's error (as it is or wrapped); the three
\* differ pairwise and each is reported for its own cause only.  Refuted
\* for the empty response to the first gateway call, which reports nothing.
C15_FatalOutcomesDistinct ==
  /\ EndedOnToolRequest <=> reported = MaxIterationsError
  /\ reported = MaxIterationsError => iteration = maxIterations
  /\ EndedOnEmptyResponse <=> reported = EmptyResponseError
  /\ EndedOnTransportError <=>
       reported \in {response.err, WrapFinalError(response.err)} \ {NilErr}
  /\ MaxIterationsError # EmptyResponseError
  /\ {MaxIterationsError, EmptyResponseError}
       \cap {TransportError, WrapFinalError(TransportError)} = {}

(* --------------------------------- C16 -------------------------------- *)

\* C16 as stated: registering a handler under a name that is registered
\* already leaves the registry unchanged: the name keeps the handler it had.
\* Refuted: RegisterTool assigns te.tools[name] and returns nothing.
C16_DuplicateRegistrationRejected ==
  registered.previous # "none" =>
    registry[registered.name] = registered.previous

\* C16, amended: a registration never fails; the name registered last maps
\* to the handler passed with it, whether or not the name was registered
\* before, and every step of registration leaves the handlers of all other
\* names as they were and removes no name.
C16_LastRegistrationWins ==
  /\ [](registered.name # "none" =>
          /\ registered.name \in DOMAIN registry
          /\ registry[registered.name] = registered.handler)
  /\ [][LET name == registered'.name
        IN /\ DOMAIN registry' = DOMAIN registry \cup {name}
           /\ \A n \in DOMAIN registry \ {name} : registry'[n] = registry[n]
           /\ registered'.previous =
                IF name \in DOMAIN registry THEN registry[name] ELSE "none"
      ]_vars

\* C16 witness: a name was registered over another handler and holds the
\* new one
C16_Witness ==
  /\ registered.previous \notin {"none", registered.handler}
  /\ registry[registered.name] = registered.handler

(* --------------------------------- C17 -------------------------------- *)

\* the text of the result turn for a tool name without a handler
NotFoundText(name) == Lit("Error: ") \o Lit("tool not found: ") \o Lit(name)

CommandHandlers == {"tools.ExecuteBash", "tools.ExecuteNvidiaSmi"}

\* the command's next step invokes bash or nvidia_smi
InvokesCommandTool ==
  /\ ExecuteStep
  /\ Head(pending).Name \in {"bash", "nvidia_smi"}
  /\ registry[Head(pending).Name] \in CommandHandlers

\* C18 as stated: for bash and nvidia_smi a JSON object without "command"
\* gives an invalid-arguments error and no command is executed, and an
\* object with "command" and a further key is executed as the same object
\* without that key is.  Refuted for the object without "command": it is
\* decoded without error and bash -c "" is run.
C18_MissingCommandRejected ==
  [][InvokesCommandTool =>
       LET toolCall == Head(pending)
       IN /\ toolCall.Input = NoCommandInput =>
               /\ execOut'.command = "none"
               /\ Take(execOut'.err, 15) = Lit("invalid input: ")
          /\ toolCall.Input = ExtraKeyInput =>
               /\ execOut'.command = "ls"
               /\ \E env \in ToolEnvs :
                    execOut' = Execute(registry,
                                       ToolCall(toolCall.ID, toolCall.Name,
                                                ValidInput), env)
     ]_vars

(* --------------------------------- C20 -------------------------------- *)

\* C20: the caller's transcript is append-only: in every step (a
\* submission, toolExecutedMsg, responseMsg with or without an error, in
\* any exchange) the transcript before the step is a prefix of the
\* transcript after it; no turn is removed, reordered or rewritten.
C20_TranscriptAppendOnly ==
  [][IsPrefix(messages, messages')]_vars

\* C20 witness: a second exchange has failed after a first one that ran a
\* tool and ended; the transcript holds the turns of both, in order
C20_Witness ==
  /\ exchanges = 2
  /\ outcome = "Failed"
  /\ Len(messages) = 6
  /\ messages[1].Role = "user"
  /\ IsToolRequest(messages[2])
  /\ IsToolResult(messages[3])
  /\ IsAssistantText(messages[4])
  /\ messages[5].Role = "user"
  /\ messages[6] = AssistantMessage(SprintfError(reported))

(* --------------------------------- C21 -------------------------------- *)

\* the tool turns of a transcript that belong to the calls of a list
TurnsOf(msgs, calls) ==
  SelectSeq(msgs,
            LAMBDA m : /\ IsToolRequest(m) \/ IsToolResult(m)
                       /\ \E i \in DOMAIN calls : calls[i].ID = m.ToolCallID)

\* C21: every gateway call is given the transcript as it stands at that
\* moment: the caller's transcript (the turns of earlier exchanges and the
\* current user turn) is a prefix of it, it is the command's whole
\* transcript, and it holds a request turn and a result turn, in request
\* order, for every tool call requested so far in the exchange; the tool
\* list is the one of GetAvailableTools, the same on every call.
C21_FullTranscriptOnEveryCall ==
  [][GatewayStep =>
       /\ sent' = cmdMessages
       /\ IsPrefix(messages, sent')
       /\ IsPrefix(sent, sent')
       /\ LET turns == TurnsOf(sent', requested)
          IN /\ Len(turns) = 2 * Len(requested)
             /\ \A i \in DOMAIN requested :
                  /\ IsRequestOf(turns[2 * i - 1], requested[i])
                  /\ IsToolResult(turns[2 * i])
                  /\ turns[2 * i].ToolCallID = requested[i].ID
       /\ \E i \in DOMAIN sent' :
            /\ sent'[i].Role = "user"
            /\ \A j \in (i + 1)..Len(sent') : sent'[j].Role # "user"
            /\ Len(TurnsOf(SubSeq(sent', 1, i), requested)) = 0
       /\ sentTools' = <<"bash", "nvidia_smi">>
       /\ gwCalls > 0 => sentTools' = sentTools
     ]_vars

\* C21 witness: the third gateway call of an exchange was given the turns
\* of two tool rounds
C21_Witness ==
  /\ gwCalls = 3
  /\ Len(requested) >= 2
  /\ sent = cmdMessages
  /\ Len(TurnsOf(sent, requested)) >= 4

(* --------------------------------- C22 -------------------------------- *)

\* a step in which the user's input is accepted
SubmitStep == exchanges' = exchanges + 1

\* C22: a failed gateway call ends the command with a failure message and
\* is not called again; once the exchange has ended Failed no command runs
\* and no message waits, and no step calls the gateway or invokes a tool:
\* the next step that changes the exchange is a submission.
C22_NoRetryAfterFailed ==
  /\ [](outcome = "Failed" =>
          cmd = "none" /\ mailbox = NoMsg /\ running = 0 /\ ~thinking)
  /\ [][/\ (GatewayStep /\ response'.err # NilErr) =>
             /\ cmd' = "returned"
             /\ mailbox'.type = "responseMsg"
             /\ mailbox'.err # NilErr
        /\ outcome = "Failed" =>
             /\ ~GatewayStep
             /\ ~ExecuteStep
             /\ \/ /\ SubmitStep
                   /\ messages'[Len(messages')].Role = "user"
                \/ UNCHANGED <<messages, thinking, cmdVars, outcome>>
      ]_vars

\* C22 witness: after an exchange that ended Failed the user has submitted
\* again, and the gateway was called for the new input
C22_Witness ==
  /\ exchanges = 2
  /\ gwCalls = 1
  /\ \E i \in DOMAIN sent :
       /\ i < Len(sent)
       /\ IsAssistantText(sent[i])
       /\ Take(sent[i].Content, 7) = Lit("Error: ")
       /\ sent[i + 1].Role = "user"

(* --------------------------------- C23 -------------------------------- *)

\* C23: when every gateway call and tool invocation returns, an exchange
\* started by a submission reaches Done or Failed, after at most
\* maxIterations + 1 gateway calls, and when it has ended the thinking flag
\* is cleared and no command is left, so that Update takes the next
\* submission.
C23_EveryExchangeTerminates ==
  /\ thinking ~> (~thinking /\ outcome \in {"Done", "Failed"})
  /\ [](gwCalls <= maxIterations + 1)
  /\ [](outcome \in {"Done", "Failed"} =>
          ~thinking /\ cmd = "none" /\ running = 0)
  /\ [](thinking => outcome = "none")

\* C23 witness: an exchange has ended after the largest number of gateway
\* calls, and the flag is cleared
C23_Witness ==
  /\ gwCalls = maxIterations + 1
  /\ outcome \in {"Done", "Failed"}
  /\ ~thinking

(* --------------------------------- C24 -------------------------------- *)

\* the last gateway response holds both text and tool requests
MixedResponse ==
  /\ response.err = NilErr
  /\ response.Content # <<>>
  /\ response.ToolCalls # <<>>

\* the turns of new that old does not have
Added(old, new) == SubSeq(new, Len(old) + 1, Len(new))

\* a turn that carries no text of the model: a request turn without
\* content, or a result turn
CarriesNoText(m) ==
  \/ IsToolRequest(m) /\ m.Content = <<>>
  \/ IsToolResult(m)

\* C24: the content of a response that also holds tool requests is
\* discarded: the step that receives the response appends nothing, and as
\* long as it is the last response every turn appended to the command's or
\* the caller's transcript is a request turn without content or a result
\* turn; no transcript holds more assistant text turns than text-only
\* responses and failures have ended exchanges.
C24_ContentWithToolsDiscarded ==
  /\ [][/\ (GatewayStep /\ response'.ToolCalls # <<>>) =>
             cmdMessages' = cmdMessages /\ messages' = messages
        /\ (MixedResponse /\ ~GatewayStep /\ ~SubmitStep) =>
             /\ IsPrefix(cmdMessages, cmdMessages')
             /\ \A i \in DOMAIN Added(cmdMessages, cmdMessages') :
                  CarriesNoText(Added(cmdMessages, cmdMessages')[i])
             /\ \A i \in DOMAIN Added(messages, messages') :
                  \/ CarriesNoText(Added(messages, messages')[i])
                  \/ /\ mailbox.type = "responseMsg"
                     /\ mailbox.err # NilErr
      ]_vars
  /\ [](\A t \in Transcripts :
          Len(SelectSeq(t, IsAssistantText))
            <= exchanges - (IF thinking THEN 1 ELSE 0))

\* C24 witness: a response with text and a tool request was followed by a
\* text-only response, the exchange ended Done, and the only assistant text
\* in the caller's transcript is its last turn
C24_Witness ==
  /\ outcome = "Done"
  /\ oddities = 1
  /\ exchanges = 1
  /\ Len(messages) = 4
  /\ IsToolRequest(messages[2]) /\ messages[2].Content = <<>>
  /\ IsToolResult(messages[3])
  /\ IsAssistantText(messages[4])
  /\ sent = SubSeq(messages, 1, 3)
  /\ Len(requested) = 1
  /\ requested[1].Name = "bash" /\ requested[1].Input = ValidInput
  /\ messages[3].Content = Lit("ok")

(* --------------------------------- C25 -------------------------------- *)

\* every request turn of the transcript is directly followed by a result
\* turn with its call ID
RequestsAnswered(t) ==
  \A i \in DOMAIN t :
    IsToolRequest(t[i]) =>
      /\ i < Len(t)
      /\ IsToolResult(t[i + 1])
      /\ t[i + 1].ToolCallID = t[i].ToolCallID

\* C25: whenever no exchange is in flight, after Done and after Failed
\* alike, every tool-request turn of the caller's transcript is directly
\* followed by a tool-result turn with the same call ID.
C25_NoUnansweredRequestAtRest ==
  ~thinking => RequestsAnswered(messages)

\* C25 witness: an exchange with two tool requests in one response has
\* ended Failed, and the caller's transcript holds both requests, each
\* followed by its result
C25_Witness ==
  /\ ~thinking
  /\ outcome = "Failed"
  /\ Len(SelectSeq(messages, IsToolRequest)) = 2
  /\ Len(SelectSeq(messages, IsToolResult)) = 2
  /\ RequestsAnswered(messages)

(* --------------------------------- C26 -------------------------------- *)

\* the names the executor advertises to the gateway
Advertised == {GetAvailableTools[i] : i \in DOMAIN GetAvailableTools}

\* C26 as stated: the executor of the loop advertises exactly the tools it
\* can run: every advertised name has a handler and every name with a
\* handler is advertised.  Refuted: get_time is registered by
\* NewToolExecutor and left out of the list of tools.Executor.
C26_AdvertisedIsRegistered ==
  /\ Advertised \subseteq DOMAIN registry
  /\ DOMAIN registry \subseteq Advertised

(* --------------------------------- C27 -------------------------------- *)

\* C27 as stated: in the provider messages built from the transcript of
\* any gateway call, every tool-result entry is preceded by a tool-use
\* entry with the same call ID, also for a request whose arguments string
\* is empty, and the entries stand in the order of the turns they were
\* built from.  Refuted for the empty arguments string: its request turn
\* is translated to nothing and its result turn stands alone.
C27_ToolResultFollowsToolUse ==
  LET pm == AnthropicMessages(sent)
  IN /\ \A i \in DOMAIN pm :
          pm[i].block = "tool_result" =>
            \E j \in 1..(i - 1) :
              pm[j].block = "tool_use" /\ pm[j].id = pm[i].id
     /\ \A i, j \in DOMAIN pm : i < j => pm[i].at < pm[j].at

(* --------------------------------- C28 -------------------------------- *)

\* the turn Update appends for a failed exchange
IsErrorTurn(m) ==
  IsAssistantText(m) /\ Take(m.Content, 7) = Lit("Error: ")

\* C28: the step that ends an exchange Failed appends to the caller's
\* transcript exactly one turn, an assistant turn whose content is
\* "Error: " followed by the error reported, as its last turn; and every
\* gateway call of a later exchange is given that turn at its place, and
\* the provider messages built for the call hold a text entry for it.
C28_ErrorTurnAppendedAndResent ==
  /\ [][(outcome = "none" /\ outcome' = "Failed") =>
          /\ messages' =
               Append(messages,
                      Message("assistant", Lit("Error: ") \o reported',
                              "", "", ""))
          /\ reported' = mailbox.err
          /\ reported' # NilErr
      ]_vars
  /\ [][GatewayStep =>
          \A i \in DOMAIN messages :
            IsErrorTurn(messages[i]) =>
              /\ sent'[i] = messages[i]
              /\ \E k \in DOMAIN AnthropicMessages(sent') :
                   /\ AnthropicMessages(sent')[k].at = i
                   /\ AnthropicMessages(sent')[k].role = "assistant"
                   /\ AnthropicMessages(sent')[k].block = "text"
      ]_vars

\* C28 witness: the first exchange failed on its gateway call, and the
\* gateway call of the second exchange was given the error turn between
\* the two user turns
C28_Witness ==
  /\ exchanges = 2
  /\ gwCalls = 1
  /\ Len(sent) = 3
  /\ sent[2] = Message("assistant", Lit("Error: ") \o TransportError,
                       "", "", "")
  /\ sent[3].Role = "user"
  /\ Len(AnthropicMessages(sent)) = 3

(* --------------------------------- C29 -------------------------------- *)

\* C29: in every transcript the program holds (the caller's, the
\* command's, the returned message's, the one last sent) every tool-result
\* turn has content no longer than the cap plus the truncation marker,
\* whether it shows an output or an error text, in the tool phase of
\* sendMessage and in those of sendFinalMessage.
C29_ResultLengthBounded ==
  \A t \in Transcripts :
    \A i \in DOMAIN t :
      IsToolResult(t[i]) =>
        StrLen(t[i].Content) <= TruncateAt + StrLen(TruncationMarker)

\* C29 witness: a command failed with an output longer than the cap; the
\* error text was built and then cut, and the caller's transcript holds it
C29_Witness ==
  /\ execOut.err # NilErr
  /\ StrLen(execOut.err) > TruncateAt
  /\ \E i \in DOMAIN messages :
       /\ IsToolResult(messages[i])
       /\ Take(messages[i].Content, 7) = Lit("Error: ")
       /\ StrLen(messages[i].Content) = TruncateAt + StrLen(TruncationMarker)

(* --------------------------------- C30 -------------------------------- *)

\* C30: a step that invokes a tool stores a result text of at most 5000
\* characters, exactly 5000 included, unchanged and without the marker
\* added; of a longer text the stored content is longer than the cap and
\* its first 5000 characters are the first 5000 characters of the text.
C30_ShortResultsUnchanged ==
  [][ExecuteStep =>
       LET text == ResultText(execOut')
           content == cmdMessages'[Len(cmdMessages')].Content
       IN IF StrLen(text) <= TruncateAt
          THEN /\ content = text
               /\ MarkerCount(content) = MarkerCount(text)
          ELSE /\ StrLen(content) > TruncateAt
               /\ Take(content, TruncateAt) = Take(text, TruncateAt)
               /\ StrLen(Take(text, TruncateAt)) = TruncateAt
     ]_vars

\* C30 witness: an output of exactly 5000 characters was stored as it is
C30_Witness ==
  /\ StrLen(ResultText(execOut)) = TruncateAt
  /\ \E i \in DOMAIN messages :
       /\ IsToolResult(messages[i])
       /\ messages[i].Content = Run("x", TruncateAt)

(* --------------------------------- C31 -------------------------------- *)

\* C31: while no exchange is in flight every step is an Enter, and entered'
\* is the input it found. If the input is empty or only blanks the step
\* adds no turn, leaves the thinking flag down, starts no command and calls
\* no gateway, and it is not a submission. Otherwise the step is a
\* submission: the transcript grows by exactly one user turn whose content
\* is the trimmed input, the thinking flag goes up, sendMessage starts on
\* that transcript and no gateway call has been made yet. The gateway is
\* only ever called with the thinking flag up.
C31_BlankSubmitIsNoOp ==
  /\ [][~thinking =>
         IF TrimSpace(entered') = <<>>
         THEN /\ ~SubmitStep
              /\ messages' = messages
              /\ ~thinking'
              /\ cmd' = "none"
              /\ mailbox' = NoMsg
              /\ running' = running
              /\ gwCalls' = gwCalls
              /\ sent' = sent
         ELSE /\ SubmitStep
              /\ Len(messages') = Len(messages) + 1
              /\ SubSeq(messages', 1, Len(messages)) = messages
              /\ messages'[Len(messages')] =
                   Message("user", TrimSpace(entered'), "", "", "")
              /\ TrimSpace(TrimSpace(entered')) = TrimSpace(entered')
              /\ thinking'
              /\ cmd' = "sendMessage"
              /\ cmdMessages' = messages'
              /\ gwCalls' = 0
              /\ sent' = <<>>
       ]_vars
  /\ [][SubmitStep => ~thinking]_vars
  /\ [][GatewayStep => thinking /\ thinking']_vars

\* C31 witness: the first Enter found only blanks and spent the one
\* departure without adding a turn; the second found "hi" and started the
\* first exchange, which has its user turn and the thinking flag up before
\* any gateway call
C31_Witness ==
  /\ entered = Lit("hi")
  /\ oddities = 1
  /\ exchanges = 1
  /\ messages = <<UserMessage(Lit("hi"))>>
  /\ thinking
  /\ cmd = "sendMessage"
  /\ gwCalls = 0

====
